---- MODULE Spec2Model ----
(***************************************************************************)
(* Model of pika's snapshot transfer service (src/rsync_server.cc) and of  *)
(* the list compaction filters exercised by                                *)
(* src/storage/tests/lists_filter_test.cc.                                 *)
(*                                                                         *)
(* The specifications of the module:                                       *)
(*   SpecTransfer  one replica pulling one snapshot file through           *)
(*                 HandleFileRsyncRequest / ReadDumpFile, statement by     *)
(*                 statement;                                              *)
(*   SpecTransferLive  SpecTransfer with a worker thread that keeps        *)
(*                 running the read loop;                                  *)
(*   Spec          the rsync server: reader thread, worker pool, partition *)
(*                 registry and background-save coordinator;               *)
(*   SpecFilter    the list meta / data compaction filters;                *)
(*   SpecVersion   UpdateVersion on one meta record over the clock range;  *)
(*   SpecCache     the data filter's per-key meta cache.                   *)
(*                                                                         *)
(* Data lengths are counted in units of 512 KiB, so that the 1 MiB block   *)
(* of ReadDumpFile is exactly two units.                                   *)
(***************************************************************************)
EXTENDS Integers, Sequences, FiniteSets, TLC

\* ------------------------------------------------------------------------
\* Bounds of the model
\* ------------------------------------------------------------------------
MaxFileLen == 5
MaxCount == 6
Bytes == {0, 1}
\* The replica gives up after this many requests (a request with count 0
\* never reaches eof); it exceeds the requests any count > 0 needs.
MaxRequests == MaxFileLen + 2
\* Spec: frames read from the connection, snapshots the coordinator
\* produces, units per snapshot file, largest offset a FileReq names.
MaxFrames == 2
MaxSnapshots == 2
SnapFileLen == 2
MaxOffset == 1
\* SpecFilter: clock range and largest version written.
MaxTime == 3
MaxVersion == 3

\* ------------------------------------------------------------------------
\* Program constants
\* ------------------------------------------------------------------------
\* const int kMaxCopyBlockSize = 1 << 20;  (two units of 512 KiB)
kMaxCopyBlockSize == 2
\* std::make_unique<net::ThreadPool>(2, 100000): two worker threads.
kWorkerNum == 2
\* size_t arithmetic is modular; the modulus is scaled to fit the checker's
\* integers and stays far above every length of the model.
SizeModulus == 1073741824

Min(a, b) == IF a < b THEN a ELSE b

SizeSub(a, b) == ((a - b) + SizeModulus) % SizeModulus

SizeAdd(a, b) == (a + b) % SizeModulus

\* ------------------------------------------------------------------------
\* State
\* ------------------------------------------------------------------------
VARIABLES
  \* --- SpecTransfer: the snapshot file and the replica --------------------
  file,          \* content of the snapshot file, a sequence of Bytes
  req,           \* the FileReq under way: [offset, count]
  rd,            \* locals of ReadDumpFile (see RdInit)
  pc,            \* position of the handler / reader
  resp,          \* the response handed to RsyncWriteResp, or NoResp
  replica,       \* [offset, data, state, nreq, checksum]
  ioFault,       \* TRUE when the disk may return errors in this run
  \* --- Spec: the rsync server --------------------------------------------
  registry,      \* the partitions g_pika_server knows
  bgsave,        \* per partition: [is_bgsaving, gen], gen the snapshot advertised
  conn,          \* the connection: [state, close_notified]
  arrived,       \* the requests parsed by DealMessage, in arrival order
  queue,         \* the worker pool's task queue
  workers,       \* per worker thread: [pc, task, req, response]
  writes,        \* log of the calls of RsyncWriteResp, in order
  checks,        \* log of what the handlers' slot lookups saw, per task
  crashed,       \* the process was killed by a fault
  server,        \* where RsyncServer is between construction, Start and Stop
  \* --- SpecFilter: the list column families and their filters -----------
  now,           \* the wall clock, unix seconds
  metaCF,        \* meta column family: user key -> [exists, size, version, ttl]
  dataCF,        \* data column family: set of [key, version, index]
  job,           \* the compaction job of the data column family and its filter
  last           \* the filter call made by the last step, if it made one

transferVars == <<file, req, rd, pc, resp, replica, ioFault>>

serverVars ==
  <<registry, bgsave, conn, arrived, queue, workers, writes, checks, crashed,
    server>>

filterVars == <<now, metaCF, dataCF, job, last>>

vars == <<transferVars, serverVars, filterVars>>

NoResp == [code |-> "none"]

IsOkFileResp(r) == r.code = "kOk" /\ r.has_file_resp

\* pstd::MD5 is modelled as an ideal hash: the digest determines the bytes
\* that were fed to update(), in order.
MD5Init == <<>>

MD5Update(md5, block) == md5 \o block

HexDigest(md5) == <<"md5", md5>>

MD5OfFile(f) == HexDigest(MD5Update(MD5Init, f))

SubSeqFrom(f, off, n) == IF n = 0 THEN <<>> ELSE SubSeq(f, off + 1, off + n)

\* pread(fd, data, n, off) on a file f without error: the number of bytes
\* the file still has at off, capped by n (0 at or past end of file, and 0
\* when n is 0).
PreadAvail(f, n, off) == IF off >= Len(f) THEN 0 ELSE Min(n, Len(f) - off)

\* RdInit without the cap of lines 35-37 taken from count: the first pread
\* asks for a whole block whatever count is.
RdInit_FullBlock(offset, count) ==
  [read_offset |-> offset,
   read_count |-> kMaxCopyBlockSize,
   bytesin |-> 0,
   left_read_count |-> count,
   bytes_read |-> 0,
   data |-> <<>>,
   fpos |-> 0,
   md5 |-> MD5Init,
   checksum |-> <<>>,
   status |-> "none"]

\* Locals of ReadDumpFile after lines 32-39.
RdInit(offset, count) ==
  [read_offset |-> offset,
   read_count |-> IF count > kMaxCopyBlockSize THEN kMaxCopyBlockSize ELSE count,
   bytesin |-> 0,
   left_read_count |-> count,
   bytes_read |-> 0,
   data |-> <<>>,
   fpos |-> 0,
   md5 |-> MD5Init,
   checksum |-> <<>>,
   status |-> "none"]

\* LoopBody without the clamp of lines 46-48: read_count is never lowered to
\* what is left of count.
LoopBody_NoClamp(st, block) ==
  LET bytesin == Len(block)
  IN [st EXCEPT
        !.bytesin = bytesin,
        !.left_read_count = SizeSub(st.left_read_count, bytesin),
        !.data = st.data \o block,
        !.bytes_read = SizeAdd(st.bytes_read, bytesin),
        !.read_offset = SizeAdd(st.read_offset, bytesin)]

\* LoopBody without line 52: read_offset is never advanced.
LoopBody_NoAdvance(st, block) ==
  LET bytesin == Len(block)
      left == SizeSub(st.left_read_count, bytesin)
  IN [st EXCEPT
        !.bytesin = bytesin,
        !.left_read_count = left,
        !.read_count = IF st.read_count > left THEN left ELSE st.read_count,
        !.data = st.data \o block,
        !.bytes_read = SizeAdd(st.bytes_read, bytesin)]

\* One pass through the body of the while loop (lines 42-52) after a pread
\* that returned bytesin > 0 bytes, namely block.
\* left_read_count is a size_t, so the test left_read_count < 0 of line 43
\* is never true.
LoopBody(st, block) ==
  LET bytesin == Len(block)
      left == SizeSub(st.left_read_count, bytesin)
  IN [st EXCEPT
        !.bytesin = bytesin,
        !.left_read_count = left,
        !.read_count = IF st.read_count > left THEN left ELSE st.read_count,
        !.data = st.data \o block,
        !.bytes_read = SizeAdd(st.bytes_read, bytesin),
        !.read_offset = SizeAdd(st.read_offset, bytesin)]

\* An RsyncResponse after lines 203-207 (168-172 for a MetaReq): code kOk,
\* the type and partition of the request, and unset sub-messages, which
\* protobuf reads as their default values.
DefaultFileResp ==
  [data |-> <<>>, eof |-> FALSE, checksum |-> <<>>, filename |-> "",
   count |-> 0, offset |-> 0]

NewResponse(type, db_name, slot_id) ==
  [code |-> "kOk", type |-> type, db_name |-> db_name, slot_id |-> slot_id,
   snapshot_uuid |-> <<>>,
   has_file_resp |-> FALSE, file_resp |-> DefaultFileResp,
   has_meta_resp |-> FALSE, filenames |-> <<>>]

\* Lines 239-245 with the offset left at its default.
FileResponse_DefaultOffset(filename, offset, count, st) ==
  [data |-> st.data,
   eof |-> (st.bytes_read # count),
   checksum |-> st.checksum,
   filename |-> filename,
   count |-> st.bytes_read,
   offset |-> 0]

\* Lines 239-245: the FileResponse built from a successful read.
FileResponse(filename, offset, count, st) ==
  [data |-> st.data,
   eof |-> (st.bytes_read # count),
   checksum |-> st.checksum,
   filename |-> filename,
   count |-> st.bytes_read,
   offset |-> offset]

\* The response after ReadDumpFile returned st, with the bytes read so far
\* attached to the kErr response of a failed read.
FileReadResponse_SendPartial(response, filename, offset, count, st) ==
  IF st.status # "OK"
    THEN [response EXCEPT
            !.code = "kErr",
            !.has_file_resp = (st.bytes_read > 0),
            !.file_resp = [DefaultFileResp EXCEPT !.data = st.data]]
    ELSE [response EXCEPT
            !.has_file_resp = TRUE,
            !.file_resp = [data |-> st.data,
                           eof |-> (st.bytes_read # count),
                           checksum |-> st.checksum,
                           filename |-> filename,
                           count |-> st.bytes_read,
                           offset |-> offset]]

\* Lines 231-247: the response after ReadDumpFile returned st; a failed read
\* sets code kErr and no FileResponse.
FileReadResponse(response, filename, offset, count, st) ==
  IF st.status # "OK"
    THEN [response EXCEPT !.code = "kErr"]
    ELSE [response EXCEPT
            !.has_file_resp = TRUE,
            !.file_resp = FileResponse(filename, offset, count, st)]

\* ------------------------------------------------------------------------
\* SpecFilter: list meta / data records and their compaction filters
\* ------------------------------------------------------------------------
\* User keys are numbered in their byte order; one list, whose elements are
\* told apart by the version they were written with.
UserKeys == {1}

Indexes == {1}

NoKey == 0

NoMeta == [exists |-> FALSE, size |-> 0, version |-> 0, ttl |-> 0]

\* The version field is a signed 32-bit integer.
Int32Max == 2147483647

Int32Min == (-Int32Max) - 1

\* old + 1 as the 32-bit field stores it: the successor of the largest value
\* is the smallest one.
Int32Succ(old) == IF old = Int32Max THEN Int32Min ELSE old + 1

\* update_version that takes the clock whatever the old version is.
UpdateVersion_ClockOnly(old, t) == t

\* ListsMetaValue::UpdateVersion on a record of version old at time t:
\* max(old + 1, t), stored in the 32-bit field.
UpdateVersion(old, t) == IF old >= t THEN Int32Succ(old) ELSE t

\* ListsMetaValue(count), UpdateVersion(), SetRelativeTimestamp(rel) when
\* rel > 0: the meta value the test writes (lines 167-170, 184-188).
NewMetaValue(size, rel, t) ==
  [exists |-> TRUE, size |-> size, version |-> UpdateVersion(0, t),
   ttl |-> IF rel = 0 THEN 0 ELSE t + rel]

\* The meta filter sparing every record whose version is not in the past.
ListsMetaFilter_NeedsOldVersion(meta, t) ==
  /\ meta.version < t
  /\ (meta.size = 0 \/ (meta.ttl # 0 /\ meta.ttl < t))

\* The meta filter's decision: TRUE is drop.
ListsMetaFilter(meta, t) ==
  IF meta.size = 0
    THEN TRUE
    ELSE IF meta.ttl # 0 /\ meta.ttl < t
      THEN TRUE
      ELSE FALSE

\* Step 4 dropping the records of the meta record's own version too.
DataFilterDecision_DropEqual(meta_exists, meta_version, meta_ttl, version_d, t) ==
  \/ ~meta_exists
  \/ (meta_ttl # 0 /\ meta_ttl < t)
  \/ version_d <= meta_version

\* Step 4 without the version test.
DataFilterDecision_KeepStale(meta_exists, meta_version, meta_ttl, version_d, t) ==
  \/ ~meta_exists
  \/ (meta_ttl # 0 /\ meta_ttl < t)

\* Step 4 without the ttl test.
DataFilterDecision_IgnoreTtl(meta_exists, meta_version, meta_ttl, version_d, t) ==
  \/ ~meta_exists
  \/ version_d < meta_version

\* Step 4 of the data filter: TRUE is drop.
DataFilterDecision(meta_exists, meta_version, meta_ttl, version_d, t) ==
  IF ~meta_exists
    THEN TRUE
    ELSE IF meta_ttl # 0 /\ meta_ttl < t
      THEN TRUE
      ELSE IF version_d < meta_version
        THEN TRUE
        ELSE FALSE

\* A filter instance as it is constructed: nothing cached.
NewDataFilter ==
  [last_user_key |-> NoKey, meta_exists |-> FALSE, meta_version |-> 0,
   meta_ttl |-> 0]

\* Steps 2 and 3 with a cache that is filled once and reused for every key.
DataFilterLookup_NeverRefresh(flt, user_key, cf) ==
  IF flt.last_user_key # NoKey
    THEN flt
    ELSE [last_user_key |-> user_key,
          meta_exists |-> cf[user_key].exists,
          meta_version |-> cf[user_key].version,
          meta_ttl |-> cf[user_key].ttl]

\* Steps 2 and 3 of the data filter: the cached state is reused for the
\* user key of the previous record, any other key is looked up and cached.
DataFilterLookup(flt, user_key, cf) ==
  IF user_key = flt.last_user_key
    THEN flt
    ELSE [last_user_key |-> user_key,
          meta_exists |-> cf[user_key].exists,
          meta_version |-> cf[user_key].version,
          meta_ttl |-> cf[user_key].ttl]

\* A data key too short to hold (user_key, version, index): it sorts before
\* every well-formed key.
CorruptRecord == [key |-> NoKey, version |-> 0, index |-> 0]

\* Step 1: parse_data_key fails with CorruptRecord on a key that is too short.
ParseOk(rec) == rec # CorruptRecord

\* Step 3 when the point lookup fails with an engine error: treated as
\* meta_exists = false.
DataFilterLookupFailed(user_key) ==
  [last_user_key |-> user_key, meta_exists |-> FALSE, meta_version |-> 0,
   meta_ttl |-> 0]

\* One call of the data filter on the record rec: the decision, the
\* filter's state after it, whether the meta column family was looked up
\* and the error met, if any.  lookup_fails tells whether a lookup, if one
\* is issued, returns an engine error.
ListsDataFilter(flt, rec, t, cf, lookup_fails) ==
  IF ~ParseOk(rec)
    THEN [drop |-> TRUE, looked_up |-> FALSE, flt |-> flt, error |-> "parse"]
    ELSE LET slow == rec.key # flt.last_user_key
             after == IF slow /\ lookup_fails
                        THEN DataFilterLookupFailed(rec.key)
                        ELSE DataFilterLookup(flt, rec.key, cf)
         IN [drop |-> DataFilterDecision(after.meta_exists, after.meta_version,
                                         after.meta_ttl, rec.version, t),
             looked_up |-> slow,
             flt |-> after,
             error |-> IF slow /\ lookup_fails THEN "lookup" ELSE "none"]

\* The engine hands the records to the filter in key order:
\* (user key, version, index).
RecordBefore(a, b) ==
  \/ a.key < b.key
  \/ a.key = b.key /\ a.version < b.version
  \/ a.key = b.key /\ a.version = b.version /\ a.index < b.index

RECURSIVE SortRecords(_)
SortRecords(S) ==
  IF S = {}
    THEN <<>>
    ELSE LET first == CHOOSE r \in S : \A o \in S \ {r} : RecordBefore(r, o)
         IN <<first>> \o SortRecords(S \ {first})

\* dropped counts the records the job removed, meta_written tells whether
\* the meta column family was written while the job ran, lookup_failed
\* whether a meta lookup of the job's filter met an engine error, prev_key
\* the user key of the record filtered last.
IdleJob ==
  [state |-> "idle", pending |-> <<>>, flt |-> NewDataFilter,
   meta_written |-> FALSE, dropped |-> 0, lookup_failed |-> FALSE,
   prev_key |-> NoKey]

\* What a step records of the filter call it made: which filter, the record
\* (user key, version, and for the meta filter the meta value), the decision
\* and whether the meta column family was looked up.
NoCall ==
  [filter |-> "none", key |-> NoKey, version_d |-> 0, meta |-> NoMeta,
   drop |-> FALSE, looked_up |-> FALSE, error |-> "none", prev_key |-> NoKey]

\* prev is the user key of the record the instance filtered before this one
\* (NoKey when there was none or its key did not parse).
DataCall(rec, res, prev) ==
  [filter |-> "data", key |-> rec.key, version_d |-> rec.version,
   meta |-> NoMeta, drop |-> res.drop, looked_up |-> res.looked_up,
   error |-> res.error, prev_key |-> prev]

MetaCall(k, meta, drop) ==
  [filter |-> "meta", key |-> k, version_d |-> 0, meta |-> meta,
   drop |-> drop, looked_up |-> FALSE, error |-> "none", prev_key |-> NoKey]

FilterIdle ==
  /\ now = 1
  /\ metaCF = [k \in UserKeys |-> NoMeta]
  /\ dataCF = {}
  /\ job = IdleJob
  /\ last = NoCall

\* A write to the meta column family: a running job's filter may hold the
\* record's former state, and a finished job's result is no longer the
\* latest state of the column families.
MetaWritten(j) ==
  IF j.state = "running"
    THEN [j EXCEPT !.meta_written = TRUE]
    ELSE IF j.state = "done" THEN IdleJob ELSE j

Tick ==
  /\ now < MaxTime
  /\ now' = now + 1
  /\ last' = NoCall
  /\ UNCHANGED <<metaCF, dataCF, job>>
  /\ UNCHANGED <<transferVars, serverVars>>

\* The wall clock is set back by a second (clock jitter, a restart).
ClockStepBack ==
  /\ now > 1
  /\ now' = now - 1
  /\ last' = NoCall
  /\ UNCHANGED <<metaCF, dataCF, job>>
  /\ UNCHANGED <<transferVars, serverVars>>

\* put(meta): a new ListsMetaValue is versioned and written (test lines
\* 167-170, 184-188).
PutMeta(k, size, rel) ==
  /\ metaCF' = [metaCF EXCEPT ![k] = NewMetaValue(size, rel, now)]
  /\ job' = MetaWritten(job)
  /\ last' = NoCall
  /\ UNCHANGED <<now, dataCF>>
  /\ UNCHANGED <<transferVars, serverVars>>

\* update_version(meta) and the rewrite of the record (test lines 225-226).
UpdateVersionPut(k) ==
  /\ metaCF[k].exists
  /\ metaCF[k].version < MaxVersion
  /\ metaCF' = [metaCF EXCEPT ![k].version = UpdateVersion(@, now)]
  /\ job' = MetaWritten(job)
  /\ last' = NoCall
  /\ UNCHANGED <<now, dataCF>>
  /\ UNCHANGED <<transferVars, serverVars>>

\* delete(meta) (test lines 177, 244).
DeleteMeta(k) ==
  /\ metaCF[k].exists
  /\ metaCF' = [metaCF EXCEPT ![k] = NoMeta]
  /\ job' = MetaWritten(job)
  /\ last' = NoCall
  /\ UNCHANGED <<now, dataCF>>
  /\ UNCHANGED <<transferVars, serverVars>>

\* put(data): an element written with the version the meta record has now
\* (test lines 173, 224).
PutData(k, idx) ==
  /\ metaCF[k].exists
  /\ dataCF' = dataCF \cup {[key |-> k, version |-> metaCF[k].version, index |-> idx]}
  /\ job' = IF job.state = "done" THEN IdleJob ELSE job
  /\ last' = NoCall
  /\ UNCHANGED <<now, metaCF>>
  /\ UNCHANGED <<transferVars, serverVars>>

\* A data record whose key is damaged gets into the data column family.
PutCorruptData ==
  /\ CorruptRecord \notin dataCF
  /\ dataCF' = dataCF \cup {CorruptRecord}
  /\ job' = IF job.state = "done" THEN IdleJob ELSE job
  /\ last' = NoCall
  /\ UNCHANGED <<now, metaCF>>
  /\ UNCHANGED <<transferVars, serverVars>>

\* A full compaction of the data column family starts: one job, one filter
\* instance, the records present now in key order.
StartCompaction ==
  /\ job.state # "running"
  /\ dataCF # {}
  /\ job' = [state |-> "running", pending |-> SortRecords(dataCF),
             flt |-> NewDataFilter, meta_written |-> FALSE, dropped |-> 0,
             lookup_failed |-> FALSE, prev_key |-> NoKey]
  /\ last' = NoCall
  /\ UNCHANGED <<now, metaCF, dataCF>>
  /\ UNCHANGED <<transferVars, serverVars>>

\* The job passes its next record to the filter and removes it when the
\* filter says drop.
DataFilterStep ==
  /\ job.state = "running"
  /\ job.pending # <<>>
  /\ \E lookup_fails \in BOOLEAN :
       LET rec == Head(job.pending)
           res == ListsDataFilter(job.flt, rec, now, metaCF, lookup_fails)
       IN /\ dataCF' = IF res.drop THEN dataCF \ {rec} ELSE dataCF
          /\ job' = [job EXCEPT !.pending = Tail(@), !.flt = res.flt,
                                !.dropped = IF res.drop THEN @ + 1 ELSE @,
                                !.lookup_failed = @ \/ res.error = "lookup",
                                !.prev_key = rec.key]
          /\ last' = DataCall(rec, res, job.prev_key)
  /\ UNCHANGED <<now, metaCF>>
  /\ UNCHANGED <<transferVars, serverVars>>

FinishCompaction ==
  /\ job.state = "running"
  /\ job.pending = <<>>
  /\ job' = [job EXCEPT !.state = "done"]
  /\ last' = NoCall
  /\ UNCHANGED <<now, metaCF, dataCF>>
  /\ UNCHANGED <<transferVars, serverVars>>

\* Compaction of the meta column family reaches the record of k: the meta
\* filter decides, and a dropped record is removed.
MetaFilterStep(k) ==
  /\ metaCF[k].exists
  /\ LET drop == ListsMetaFilter(metaCF[k], now)
     IN /\ last' = MetaCall(k, metaCF[k], drop)
        /\ metaCF' = IF drop THEN [metaCF EXCEPT ![k] = NoMeta] ELSE metaCF
        /\ job' = IF drop THEN MetaWritten(job) ELSE job
  /\ UNCHANGED <<now, dataCF>>
  /\ UNCHANGED <<transferVars, serverVars>>

NextFilter ==
  \/ Tick
  \/ ClockStepBack
  \/ \E k \in UserKeys, size \in 0..1, rel \in 0..1 : PutMeta(k, size, rel)
  \/ \E k \in UserKeys : UpdateVersionPut(k)
  \/ \E k \in UserKeys : DeleteMeta(k)
  \/ \E k \in UserKeys, idx \in Indexes : PutData(k, idx)
  \/ PutCorruptData
  \/ StartCompaction
  \/ DataFilterStep
  \/ FinishCompaction
  \/ \E k \in UserKeys : MetaFilterStep(k)

\* ------------------------------------------------------------------------
\* SpecVersion: update_version on one meta record under any clock
\* ------------------------------------------------------------------------
\* The clock shows any second of the first MaxTime seconds or of the last
\* MaxTime + 1 seconds a signed 32-bit version can hold.
ClockValues == (1..MaxTime) \cup {Int32Max - d : d \in 0..MaxTime}

\* What a call of update_version leaves in last: the version before the
\* call and the record after it.
VersionCall(k, old, meta) ==
  [filter |-> "update_version", key |-> k, version_d |-> old, meta |-> meta,
   drop |-> FALSE, looked_up |-> FALSE, error |-> "none", prev_key |-> NoKey]

\* The wall clock is set to any second: forwards, backwards, or far ahead.
SetClock(t) ==
  /\ t # now
  /\ now' = t
  /\ last' = NoCall
  /\ UNCHANGED <<metaCF, dataCF, job>>
  /\ UNCHANGED <<transferVars, serverVars>>

\* update_version(meta) on the record of k and the rewrite of the record.
\* The calls go on in the seconds the clock can show and across the end of
\* the 32-bit range; they stop in between, where nothing new happens.
UpdateVersionCall(k) ==
  /\ metaCF[k].exists
  /\ \/ metaCF[k].version < MaxVersion
     \/ metaCF[k].version >= Int32Max - MaxTime
  /\ LET meta == [metaCF[k] EXCEPT !.version = UpdateVersion(@, now)]
     IN /\ metaCF' = [metaCF EXCEPT ![k] = meta]
        /\ last' = VersionCall(k, metaCF[k].version, meta)
  /\ UNCHANGED <<now, dataCF, job>>
  /\ UNCHANGED <<transferVars, serverVars>>

NextVersion ==
  \/ \E t \in ClockValues : SetClock(t)
  \/ \E k \in UserKeys : UpdateVersionCall(k)

\* ------------------------------------------------------------------------
\* SpecCache: one data-filter instance over a meta column family that does
\* not change, fed records of two user keys in any order
\* ------------------------------------------------------------------------
CacheKeys == {1, 2}

\* The meta records a key may have: none, or a list of version 1 or 2 that
\* never expires or expires at second 2.
MetaSnapshots ==
  {NoMeta} \cup
  {[exists |-> TRUE, size |-> 1, version |-> v, ttl |-> ttl] :
     v \in 1..2, ttl \in {0, 2}}

\* The records the instance may be given.
CacheRecords ==
  {[key |-> k, version |-> v, index |-> i] :
     k \in CacheKeys, v \in 1..2, i \in Indexes}
  \cup {CorruptRecord}

\* The filter instance of a job is given a record: any record, whatever the
\* one before it was.
FilterRecord(rec, lookup_fails) ==
  /\ job.state = "running"
  /\ LET res == ListsDataFilter(job.flt, rec, now, metaCF, lookup_fails)
     IN /\ job' = [job EXCEPT !.flt = res.flt,
                              !.lookup_failed = @ \/ res.error = "lookup",
                              !.prev_key = rec.key]
        /\ last' = DataCall(rec, res, job.prev_key)
  /\ UNCHANGED <<now, metaCF, dataCF>>
  /\ UNCHANGED <<transferVars, serverVars>>

\* Another compaction job starts with a filter instance of its own.
NewFilterInstance ==
  /\ job.prev_key # NoKey
  /\ job' = [IdleJob EXCEPT !.state = "running"]
  /\ last' = NoCall
  /\ UNCHANGED <<now, metaCF, dataCF>>
  /\ UNCHANGED <<transferVars, serverVars>>

NextCache ==
  \/ Tick
  \/ \E rec \in CacheRecords, lookup_fails \in BOOLEAN :
       FilterRecord(rec, lookup_fails)
  \/ NewFilterInstance

\* ------------------------------------------------------------------------
\* A partition is (db_name, slot_id).  The registry knows the first one when
\* the server starts; the second one is never known.
Partitions == {<<"db0", 0>>, <<"db0", 1>>}

InitialRegistry == {<<"db0", 0>>}

Workers == 1..kWorkerNum

SeqRange(q) == {q[i] : i \in 1..Len(q)}

\* The snapshot with generation g: its UUID, its file list and its files.
\* Generation 0 is "no snapshot yet": empty UUID, no files.
UUIDOf(g) == IF g = 0 THEN <<>> ELSE <<"uuid", g>>

SnapshotFiles(g) == IF g = 0 THEN <<>> ELSE <<"a.sst", "b.sst">>

FileContent(g, name) == [i \in 1..SnapFileLen |-> <<g, name, i>>]

SnapshotDir(g) ==
  [name \in SeqRange(SnapshotFiles(g)) |-> FileContent(g, name)]

\* ReadDumpFile (lines 24-76) on a directory: the loop of lines 41-53 with
\* every pread returning all it can, then the checksum pass.
RECURSIVE ReadLoop(_, _)
ReadLoop(f, st) ==
  LET avail == PreadAvail(f, st.read_count, st.read_offset)
  IN IF avail = 0
       THEN [st EXCEPT !.bytesin = 0]
       ELSE ReadLoop(f, LoopBody(st, SubSeqFrom(f, st.read_offset, avail)))

ReadDumpFile(dir, filename, offset, count) ==
  IF filename \notin DOMAIN dir
    THEN [RdInit(offset, count) EXCEPT !.status = "IOError"]
    ELSE LET st == ReadLoop(dir[filename], RdInit(offset, count))
         IN [st EXCEPT
               !.md5 = MD5Update(MD5Init, dir[filename]),
               !.checksum = HexDigest(MD5Update(MD5Init, dir[filename])),
               !.status = "OK"]

\* The disk faults a call of ReadDumpFile may meet: none, a pread that
\* returns -1 when the bytes of the range have been read (line 55), a read
\* of the checksum pass that returns -1 (line 67).
ReadFaults == {"none", "pread", "md5"}

\* ReadDumpFile under a fault: the bytes read before the fault stay in the
\* caller's buffer and in *bytes_read, and the status is IOError.
ReadDumpFileFaulty(dir, filename, offset, count, fault) ==
  IF fault = "none" \/ filename \notin DOMAIN dir
    THEN ReadDumpFile(dir, filename, offset, count)
    ELSE [ReadLoop(dir[filename], RdInit(offset, count)) EXCEPT
            !.bytesin = -1,
            !.status = "IOError"]

\* PikaServer::GetDBSlotById: the slot, or null when the registry does not
\* know the partition.
GetDBSlotById(part) == part \in registry

\* PikaServer::GetDumpUUID: fails when the partition is unknown or has no
\* snapshot whose UUID could be looked up.
GetDumpUUID(part) ==
  IF part \in registry /\ bgsave[part].gen # 0
    THEN [ok |-> TRUE, snapshot_uuid |-> UUIDOf(bgsave[part].gen)]
    ELSE [ok |-> FALSE, snapshot_uuid |-> <<>>]

\* PikaServer::GetDumpMeta: the coordinator's file list and UUID.
GetDumpMeta(part) ==
  [filenames |-> SnapshotFiles(bgsave[part].gen),
   snapshot_uuid |-> UUIDOf(bgsave[part].gen)]

\* The frames a replica may send: a frame that does not parse, or a request.
RequestTypes == {"kRsyncMeta", "kRsyncFile", "kUnknownType"}

\* FileReqs: every offset on a file of the snapshot, one for a file no
\* snapshot has, each for both partitions; count is one block.
FileNames == {"a.sst", "nofile"}

FileRequests ==
  {[type |-> "kRsyncFile", db_name |-> p[1], slot_id |-> p[2],
    filename |-> "a.sst", offset |-> off, count |-> kMaxCopyBlockSize] :
     p \in InitialRegistry, off \in 0..MaxOffset}
  \cup
  {[type |-> "kRsyncFile", db_name |-> p[1], slot_id |-> p[2],
    filename |-> fn, offset |-> 0, count |-> kMaxCopyBlockSize] :
     p \in Partitions, fn \in FileNames}

MetaRequests ==
  {[type |-> "kRsyncMeta", db_name |-> p[1], slot_id |-> p[2],
    filename |-> "", offset |-> 0, count |-> 0] : p \in Partitions}

OtherRequests ==
  {[type |-> "kUnknownType", db_name |-> "db0", slot_id |-> 0,
    filename |-> "", offset |-> 0, count |-> 0]}

Requests == MetaRequests \cup FileRequests \cup OtherRequests

Frames ==
  {[parses |-> TRUE, req |-> r] : r \in Requests}
    \cup {[parses |-> FALSE, req |-> CHOOSE r \in OtherRequests : TRUE]}

PartOf(r) == <<r.db_name, r.slot_id>>

IdleWorker ==
  [pc |-> "idle", task |-> 0,
   req |-> CHOOSE r \in OtherRequests : TRUE,
   response |-> NewResponse("none", "", 0)]

ServerIdle ==
  /\ registry = InitialRegistry
  /\ bgsave = [p \in Partitions |-> [is_bgsaving |-> FALSE, gen |-> 0]]
  /\ conn = [state |-> "open", close_notified |-> FALSE]
  /\ arrived = <<>>
  /\ queue = <<>>
  /\ workers = [w \in Workers |-> IdleWorker]
  /\ writes = <<>>
  /\ checks = {}
  /\ crashed = FALSE
  /\ server = "constructed"

TransferIdle ==
  /\ file = <<>>
  /\ ioFault = FALSE
  /\ req = [offset |-> 0, count |-> 0]
  /\ replica = [start |-> 0, offset |-> 0, data |-> <<>>, state |-> "off",
                nreq |-> 0, checksum |-> <<>>]
  /\ rd = RdInit(0, 0)
  /\ pc = "off"
  /\ resp = NoResp

Init == ServerIdle /\ TransferIdle /\ FilterIdle

\* --- RsyncServer::Start and RsyncServer::Stop ---------------------------
\* The reader thread (rsync_server_thread_) runs from StartThread (line 104)
\* to StopThread (line 119).
ThreadRunning ==
  server \in {"thread_started", "started", "pool_stopping", "pool_stopped"}

\* The workers take tasks from start_thread_pool (line 108) until
\* stop_thread_pool (line 118) has drained the queue.
PoolRunning == server \in {"started", "pool_stopping"}

\* Line 104: rsync_server_thread_->StartThread().
Start_Thread ==
  /\ ~crashed
  /\ server = "constructed"
  /\ server' = "thread_started"
  /\ UNCHANGED <<registry, bgsave, conn, arrived, queue, workers, writes, checks, crashed>>
  /\ UNCHANGED <<transferVars, filterVars>>

\* Line 108: work_thread_->start_thread_pool().
Start_Pool ==
  /\ ~crashed
  /\ server = "thread_started"
  /\ server' = "started"
  /\ UNCHANGED <<registry, bgsave, conn, arrived, queue, workers, writes, checks, crashed>>
  /\ UNCHANGED <<transferVars, filterVars>>

\* Line 118: work_thread_->stop_thread_pool() is called.
Stop_PoolBegin ==
  /\ ~crashed
  /\ server = "started"
  /\ server' = "pool_stopping"
  /\ UNCHANGED <<registry, bgsave, conn, arrived, queue, workers, writes, checks, crashed>>
  /\ UNCHANGED <<transferVars, filterVars>>

\* Line 118: stop_thread_pool() returns: the queue is drained, no handler
\* is running, the worker threads are joined.
Stop_PoolJoin ==
  /\ ~crashed
  /\ server = "pool_stopping"
  /\ queue = <<>>
  /\ \A w \in DOMAIN workers : workers[w].pc = "idle"
  /\ server' = "pool_stopped"
  /\ UNCHANGED <<registry, bgsave, conn, arrived, queue, workers, writes, checks, crashed>>
  /\ UNCHANGED <<transferVars, filterVars>>

\* Line 119: rsync_server_thread_->StopThread(); the reader thread ends and
\* its connections are closed.
Stop_Thread ==
  /\ ~crashed
  /\ server = "pool_stopped"
  /\ server' = "stopped"
  /\ conn' = [conn EXCEPT !.state = "closed"]
  /\ UNCHANGED <<registry, bgsave, arrived, queue, workers, writes, checks, crashed>>
  /\ UNCHANGED <<transferVars, filterVars>>

\* --- the background-save coordinator and the registry -------------------
StartBgSave(part) ==
  /\ ~crashed
  /\ part \in registry
  /\ ~bgsave[part].is_bgsaving
  /\ bgsave[part].gen < MaxSnapshots
  /\ bgsave' = [bgsave EXCEPT ![part].is_bgsaving = TRUE]
  /\ UNCHANGED <<checks, registry, conn, arrived, queue, workers, writes, crashed>>
  /\ UNCHANGED <<server, transferVars, filterVars>>

\* The new snapshot (new files, new UUID) replaces the old one atomically.
FinishBgSave(part) ==
  /\ ~crashed
  /\ bgsave[part].is_bgsaving
  /\ bgsave' = [bgsave EXCEPT ![part] = [is_bgsaving |-> FALSE, gen |-> @.gen + 1]]
  /\ UNCHANGED <<checks, registry, conn, arrived, queue, workers, writes, crashed>>
  /\ UNCHANGED <<server, transferVars, filterVars>>

DropSlot(part) ==
  /\ ~crashed
  /\ part \in registry
  /\ registry' = registry \ {part}
  /\ UNCHANGED <<checks, bgsave, conn, arrived, queue, workers, writes, crashed>>
  /\ UNCHANGED <<server, transferVars, filterVars>>

\* --- the connection's reader thread -------------------------------------
\* RsyncServerConn::DealMessage, lines 129-154, on one frame.  A frame that
\* does not parse returns -1, on which the connection is closed.
\* The switch of lines 136-152 with the kRsyncMeta case falling into default.
Dispatch_FileOnly(q, id, r, late) ==
  IF r.type = "kRsyncFile"
    THEN Append(q, [id |-> id, req |-> r, after_stop |-> late])
    ELSE q

\* The switch of lines 136-152: the queue after the request r, the id-th of
\* the connection, was dispatched.  late tells whether stop_thread_pool had
\* returned by then.
Dispatch(q, id, r, late) ==
  IF r.type = "kRsyncMeta"
    THEN Append(q, [id |-> id, req |-> r, after_stop |-> late])
    ELSE IF r.type = "kRsyncFile"
      THEN Append(q, [id |-> id, req |-> r, after_stop |-> late])
      ELSE q

DealMessage(fr) ==
  /\ ~crashed
  /\ ThreadRunning
  /\ conn.state = "open"
  /\ Len(arrived) < MaxFrames
  /\ IF ~fr.parses
       THEN /\ conn' = [conn EXCEPT !.state = "closed"]
            /\ UNCHANGED <<arrived, queue>>
       ELSE /\ arrived' = Append(arrived, fr.req)
            /\ queue' = Dispatch(queue, Len(arrived) + 1, fr.req,
                                 server = "pool_stopped")
            /\ UNCHANGED conn
  /\ UNCHANGED <<checks, registry, bgsave, workers, writes, crashed>>
  /\ UNCHANGED <<server, transferVars, filterVars>>

\* The I/O thread closes a connection marked by NotifyClose.
IoThreadClose ==
  /\ ~crashed
  /\ ThreadRunning
  /\ conn.state = "open"
  /\ conn.close_notified
  /\ conn' = [conn EXCEPT !.state = "closed"]
  /\ UNCHANGED <<checks, registry, bgsave, arrived, queue, workers, writes, crashed>>
  /\ UNCHANGED <<server, transferVars, filterVars>>

\* --- the worker pool -------------------------------------------------------
\* A worker thread takes the task at the head of the queue and enters the
\* handler that was scheduled with it.  The threads are interchangeable, so
\* the idle thread with the lowest number is the one that takes it.
WorkerTake(w) ==
  /\ ~crashed
  /\ PoolRunning
  /\ workers[w].pc = "idle"
  /\ \A v \in Workers : v < w => workers[v].pc # "idle"
  /\ queue # <<>>
  /\ LET t == Head(queue)
     IN workers' = [workers EXCEPT ![w] =
          [pc |-> IF t.req.type = "kRsyncMeta" THEN "meta_slot" ELSE "file_uuid",
           task |-> t.id,
           req |-> t.req,
           response |-> NewResponse(t.req.type, t.req.db_name, t.req.slot_id)]]
  /\ queue' = Tail(queue)
  /\ UNCHANGED <<checks, registry, bgsave, conn, arrived, writes, crashed>>
  /\ UNCHANGED <<server, transferVars, filterVars>>

\* What a response's log entry tells of the ReadDumpFile call made for it:
\* its status and the bytes it had read when it returned.
NoRead == [status |-> "none", bytes_read |-> 0]

ReadOf(st) == [status |-> st.status, bytes_read |-> st.bytes_read]

\* RsyncWriteResp that wakes the I/O thread to write whatever happened.
WriteEntry_AlwaysNotifyWrite(task, response, ok, gen, read_gen, read) ==
  [task |-> task, resp |-> response, written |-> ok,
   notify |-> "NotifyWrite",
   gen |-> gen, read_gen |-> read_gen, read |-> read]

\* RsyncWriteResp, lines 78-86: the entry logged for one call, ok telling
\* whether serializing and conn->WriteResp both succeeded.  gen is the
\* generation advertised when the call is made, read_gen the generation of
\* the directory the data was read from (0 when nothing was read), read the
\* outcome of the handler's ReadDumpFile call.
WriteEntry(task, response, ok, gen, read_gen, read) ==
  [task |-> task, resp |-> response, written |-> ok,
   notify |-> IF ok THEN "NotifyWrite" ELSE "NotifyClose",
   gen |-> gen, read_gen |-> read_gen, read |-> read]

RsyncWriteResp(task, response, ok, gen, read_gen, read) ==
  /\ writes' = Append(writes, WriteEntry(task, response, ok, gen, read_gen, read))
  /\ conn' = IF ok THEN conn ELSE [conn EXCEPT !.close_notified = TRUE]

\* Line 163 without the null test: only a background save drops the request.
MetaRequestDropped_NoNullCheck(part) == bgsave[part].is_bgsaving

\* Line 163 without the IsBgSaving test: only a missing slot drops the request.
MetaRequestDropped_IgnoreBgSave(part) == ~GetDBSlotById(part)

\* Lines 162-166: TRUE when HandleMetaRsyncRequest returns without a response.
MetaRequestDropped(part) ==
  ~GetDBSlotById(part) \/ bgsave[part].is_bgsaving

\* HandleMetaRsyncRequest, lines 156-166.
HandleMeta_Slot(w) ==
  /\ ~crashed
  /\ workers[w].pc = "meta_slot"
  /\ workers' = [workers EXCEPT ![w] =
       IF MetaRequestDropped(PartOf(workers[w].req))
         THEN IdleWorker
         ELSE [@ EXCEPT !.pc = "meta_dump"]]
  /\ checks' = checks \cup
       {[task |-> workers[w].task,
         found |-> GetDBSlotById(PartOf(workers[w].req)),
         is_bgsaving |-> bgsave[PartOf(workers[w].req)].is_bgsaving]}
  /\ UNCHANGED <<registry, bgsave, conn, arrived, queue, writes, crashed>>
  /\ UNCHANGED <<server, transferVars, filterVars>>

\* Lines 168-188: the MetaResponse.
MetaResponse(response, meta) ==
  [response EXCEPT
     !.snapshot_uuid = meta.snapshot_uuid,
     !.has_meta_resp = TRUE,
     !.filenames = meta.filenames]

\* HandleMetaRsyncRequest, lines 168-190.
HandleMeta_Dump(w) ==
  /\ ~crashed
  /\ workers[w].pc = "meta_dump"
  /\ LET me == workers[w]
         part == PartOf(me.req)
     IN \E ok \in BOOLEAN :
          RsyncWriteResp(me.task, MetaResponse(me.response, GetDumpMeta(part)),
                         ok, bgsave[part].gen, 0, NoRead)
  /\ workers' = [workers EXCEPT ![w] = IdleWorker]
  /\ UNCHANGED <<checks, registry, bgsave, arrived, queue, crashed>>
  /\ UNCHANGED <<server, transferVars, filterVars>>

\* HandleFileRsyncRequest, lines 192-217: the UUID lookup.
HandleFile_UUID(w) ==
  /\ ~crashed
  /\ workers[w].pc = "file_uuid"
  /\ LET me == workers[w]
         part == PartOf(me.req)
         got == GetDumpUUID(part)
         response == [me.response EXCEPT !.snapshot_uuid = got.snapshot_uuid]
     IN IF ~got.ok
          THEN /\ \E ok \in BOOLEAN :
                    RsyncWriteResp(me.task, [response EXCEPT !.code = "kErr"],
                                   ok, bgsave[part].gen, 0, NoRead)
               /\ workers' = [workers EXCEPT ![w] = IdleWorker]
          ELSE /\ workers' = [workers EXCEPT ![w] =
                    [@ EXCEPT !.pc = "file_slot", !.response = response]]
               /\ UNCHANGED <<writes, conn>>
  /\ UNCHANGED <<checks, registry, bgsave, arrived, queue, crashed>>
  /\ UNCHANGED <<server, transferVars, filterVars>>

\* Lines 219-225: where the handler goes after the slot lookup.  A missing
\* slot is answered with kErr, and the handler does not return.
AfterSlotLookup(found) == IF found THEN "file_read" ELSE "file_null"

\* HandleFileRsyncRequest, lines 219-225.
HandleFile_Slot(w) ==
  /\ ~crashed
  /\ workers[w].pc = "file_slot"
  /\ LET me == workers[w]
         part == PartOf(me.req)
         found == GetDBSlotById(part)
     IN /\ IF ~found
             THEN \E ok \in BOOLEAN :
                    RsyncWriteResp(me.task, [me.response EXCEPT !.code = "kErr"],
                                   ok, bgsave[part].gen, 0, NoRead)
             ELSE UNCHANGED <<writes, conn>>
        /\ workers' = [workers EXCEPT ![w] =
             [@ EXCEPT !.pc = AfterSlotLookup(found),
                       !.response = IF found THEN @ ELSE [@ EXCEPT !.code = "kErr"]]]
        /\ checks' = checks \cup
             {[task |-> me.task, found |-> found,
               is_bgsaving |-> bgsave[part].is_bgsaving]}
  /\ UNCHANGED <<registry, bgsave, arrived, queue, crashed>>
  /\ UNCHANGED <<server, transferVars, filterVars>>

\* HandleFileRsyncRequest, lines 227-249, with a slot: the file is read in
\* the directory the slot's bgsave_info names now.
HandleFile_Read(w) ==
  /\ ~crashed
  /\ workers[w].pc = "file_read"
  /\ LET me == workers[w]
         part == PartOf(me.req)
         g == bgsave[part].gen
     IN \E ok \in BOOLEAN, fault \in ReadFaults :
          LET st == ReadDumpFileFaulty(SnapshotDir(g), me.req.filename,
                                       me.req.offset, me.req.count, fault)
          IN RsyncWriteResp(me.task,
                            FileReadResponse(me.response, me.req.filename,
                                             me.req.offset, me.req.count, st),
                            ok, g, IF st.status = "OK" THEN g ELSE 0, ReadOf(st))
  /\ workers' = [workers EXCEPT ![w] = IdleWorker]
  /\ UNCHANGED <<checks, registry, bgsave, arrived, queue, crashed>>
  /\ UNCHANGED <<server, transferVars, filterVars>>

\* What line 227 may read when slot is null: the path is whatever the
\* dereference yields, so the file either cannot be opened or is some file
\* outside every snapshot.
GarbageDirs == {<<>>, [f \in FileNames |-> <<"garbage">>]}

\* HandleFileRsyncRequest, lines 227-249, after the kErr response of line
\* 224: slot is null and line 227 dereferences it.  The behaviour is
\* undefined: the process dies, or the handler goes on with a garbage path.
HandleFile_NullSlot(w) ==
  /\ ~crashed
  /\ workers[w].pc = "file_null"
  /\ LET me == workers[w]
         part == PartOf(me.req)
     IN \/ /\ crashed' = TRUE
           /\ UNCHANGED <<workers, writes, conn>>
        \/ /\ \E dir \in GarbageDirs, ok \in BOOLEAN :
                LET st == ReadDumpFile(dir, me.req.filename, me.req.offset, me.req.count)
                IN RsyncWriteResp(me.task,
                                  FileReadResponse(me.response, me.req.filename,
                                                   me.req.offset, me.req.count, st),
                                  ok, bgsave[part].gen, 0, ReadOf(st))
           /\ workers' = [workers EXCEPT ![w] = IdleWorker]
           /\ UNCHANGED crashed
  /\ UNCHANGED <<checks, registry, bgsave, arrived, queue>>
  /\ UNCHANGED <<server, transferVars, filterVars>>

Next ==
  \/ Start_Thread
  \/ Start_Pool
  \/ Stop_PoolBegin
  \/ Stop_PoolJoin
  \/ Stop_Thread
  \/ \E part \in Partitions : StartBgSave(part)
  \/ \E part \in Partitions : FinishBgSave(part)
  \/ \E part \in Partitions : DropSlot(part)
  \/ \E fr \in Frames : DealMessage(fr)
  \/ IoThreadClose
  \/ \E w \in Workers : WorkerTake(w)
  \/ \E w \in Workers : HandleMeta_Slot(w)
  \/ \E w \in Workers : HandleMeta_Dump(w)
  \/ \E w \in Workers : HandleFile_UUID(w)
  \/ \E w \in Workers : HandleFile_Slot(w)
  \/ \E w \in Workers : HandleFile_Read(w)
  \/ \E w \in Workers : HandleFile_NullSlot(w)

Spec == Init /\ [][Next]_vars

InitFilter == ServerIdle /\ TransferIdle /\ FilterIdle

SpecFilter == InitFilter /\ [][NextFilter]_vars

InitCache ==
  /\ ServerIdle
  /\ TransferIdle
  /\ now = 1
  /\ metaCF \in [CacheKeys -> MetaSnapshots]
  /\ dataCF = {}
  /\ job = [IdleJob EXCEPT !.state = "running"]
  /\ last = NoCall

SpecCache == InitCache /\ [][NextCache]_vars

\* A meta record as ListsMetaValue constructs it (version 0), at any second.
InitVersion ==
  /\ ServerIdle
  /\ TransferIdle
  /\ now \in ClockValues
  /\ metaCF = [k \in UserKeys |-> [exists |-> TRUE, size |-> 1, version |-> 0, ttl |-> 0]]
  /\ dataCF = {}
  /\ job = IdleJob
  /\ last = NoCall

SpecVersion == InitVersion /\ [][NextVersion]_vars

\* ------------------------------------------------------------------------
\* SpecTransfer
\* ------------------------------------------------------------------------
FilesOfLen(n) == [1..n -> Bytes]

Files == UNION {FilesOfLen(n) : n \in 0..MaxFileLen}

InitTransfer ==
  /\ file \in Files
  /\ ioFault \in BOOLEAN
  /\ \E cnt \in 0..MaxCount, start \in 0..(MaxFileLen + 1) :
       /\ req = [offset |-> start, count |-> cnt]
       /\ replica = [start |-> start, offset |-> start, data |-> <<>>,
                     state |-> "ready", nreq |-> 0, checksum |-> <<>>]
  /\ rd = RdInit(0, 0)
  /\ pc = "idle"
  /\ resp = NoResp
  /\ ServerIdle
  /\ FilterIdle

\* The replica sends FileReq(offset, count) with its current offset.
ReplicaSend ==
  /\ pc = "idle"
  /\ replica.state = "ready"
  /\ replica.nreq < MaxRequests
  /\ req' = [req EXCEPT !.offset = replica.offset]
  /\ replica' = [replica EXCEPT !.state = "waiting", !.nreq = @ + 1]
  /\ pc' = "open"
  /\ rd' = RdInit(replica.offset, req.count)
  /\ resp' = NoResp
  /\ UNCHANGED <<file, ioFault>>
  /\ UNCHANGED <<serverVars, filterVars>>

\* Lines 26-39: open the file; on failure return IOError.
ReadDumpFile_Open ==
  /\ pc = "open"
  /\ \/ /\ pc' = "pread"
        /\ rd' = rd
     \/ /\ ioFault
        /\ rd' = [rd EXCEPT !.status = "IOError"]
        /\ pc' = "respond"
  /\ UNCHANGED <<file, req, resp, replica, ioFault>>
  /\ UNCHANGED <<serverVars, filterVars>>

\* Lines 41-53: one evaluation of the loop condition and, when pread
\* returned bytes, one pass through the body.  A pread may return fewer
\* bytes than asked for.
ReadDumpFile_Pread ==
  /\ pc = "pread"
  /\ LET avail == PreadAvail(file, rd.read_count, rd.read_offset)
     IN \/ /\ avail > 0
           /\ \E n \in 1..avail :
                rd' = LoopBody(rd, SubSeqFrom(file, rd.read_offset, n))
           /\ pc' = "pread"
        \/ /\ avail = 0
           /\ rd' = [rd EXCEPT !.bytesin = 0]
           /\ pc' = "md5"
        \/ /\ ioFault
           /\ rd' = [rd EXCEPT !.bytesin = -1, !.status = "IOError"]
           /\ pc' = "respond"
  /\ UNCHANGED <<file, req, resp, replica, ioFault>>
  /\ UNCHANGED <<serverVars, filterVars>>

\* Lines 60-74: the loop was left with bytesin == 0; read the file from the
\* descriptor's position (pread does not move it) through MD5.
ReadDumpFile_Md5 ==
  /\ pc = "md5"
  /\ rd.bytesin = 0
  /\ LET avail == PreadAvail(file, kMaxCopyBlockSize, rd.fpos)
     IN \/ /\ avail > 0
           /\ \E n \in 1..avail :
                rd' = [rd EXCEPT
                         !.md5 = MD5Update(@, SubSeqFrom(file, rd.fpos, n)),
                         !.fpos = @ + n]
           /\ pc' = "md5"
        \/ /\ avail = 0
           /\ rd' = [rd EXCEPT !.checksum = HexDigest(rd.md5), !.status = "OK"]
           /\ pc' = "respond"
        \/ /\ ioFault
           /\ rd' = [rd EXCEPT !.bytesin = -1, !.status = "IOError"]
           /\ pc' = "respond"
  /\ UNCHANGED <<file, req, resp, replica, ioFault>>
  /\ UNCHANGED <<serverVars, filterVars>>

\* The partition and snapshot of the single-file transfer.
TransferDb == "db0"

TransferUuid == <<"uuid", 1>>

\* Lines 203-248 of HandleFileRsyncRequest on a partition that exists.
HandleFileRsyncRequest_Respond ==
  /\ pc = "respond"
  /\ resp' = FileReadResponse(
               [NewResponse("kRsyncFile", TransferDb, 0)
                  EXCEPT !.snapshot_uuid = TransferUuid],
               "f", req.offset, req.count, rd)
  /\ pc' = "written"
  /\ UNCHANGED <<file, req, rd, replica, ioFault>>
  /\ UNCHANGED <<serverVars, filterVars>>

\* The replica appends the data, advances its offset by the returned count
\* and stops at the first response with eof.
ReplicaRecv ==
  /\ pc = "written"
  /\ replica.state = "waiting"
  /\ replica' =
       IF resp.code = "kErr"
         THEN [replica EXCEPT !.state = "failed"]
         ELSE [replica EXCEPT
                 !.data = @ \o resp.file_resp.data,
                 !.offset = @ + resp.file_resp.count,
                 !.checksum = resp.file_resp.checksum,
                 !.state = IF resp.file_resp.eof THEN "done" ELSE "ready"]
  /\ pc' = "idle"
  /\ UNCHANGED <<file, req, rd, resp, ioFault>>
  /\ UNCHANGED <<serverVars, filterVars>>

NextTransfer ==
  \/ ReplicaSend
  \/ ReadDumpFile_Open
  \/ ReadDumpFile_Pread
  \/ ReadDumpFile_Md5
  \/ HandleFileRsyncRequest_Respond
  \/ ReplicaRecv

SpecTransfer == InitTransfer /\ [][NextTransfer]_vars

\* The worker thread that runs ReadDumpFile is never suspended for ever:
\* the loop condition of line 41 is evaluated again and again.
SpecTransferLive ==
  InitTransfer /\ [][NextTransfer]_vars /\ WF_vars(ReadDumpFile_Pread)

\* ------------------------------------------------------------------------
\* Claims about the snapshot reader and the file transfer (SpecTransfer)
\* ------------------------------------------------------------------------
\* What the file holds from offset on, at most n bytes of it.
FileRange(f, off, n) == SubSeqFrom(f, off, PreadAvail(f, n, off))

\* C1 as stated: every FileResp with code Ok carries at most
\* min(count, 1 MiB) bytes of data.
C1_AtMostOneBlock ==
  IsOkFileResp(resp) =>
    Len(resp.file_resp.data) <= Min(req.count, kMaxCopyBlockSize)

\* C1 as amended: every single pread asks for at most 1 MiB, and a FileResp
\* with code Ok carries exactly the bytes of the file in
\* [offset, offset + count), so at most count bytes; the reader goes on
\* reading block after block until count bytes are read or the file ends.
C1_AtMostCount ==
  /\ rd.read_count <= kMaxCopyBlockSize
  /\ IsOkFileResp(resp) =>
       /\ Len(resp.file_resp.data) <= req.count
       /\ resp.file_resp.data = FileRange(file, req.offset, req.count)
       /\ resp.file_resp.count = Len(resp.file_resp.data)
       /\ resp.file_resp.eof = (Len(resp.file_resp.data) < req.count)

\* A request (offset 0, count 3 MiB) on a file of 2.5 MiB is answered with
\* the whole 2.5 MiB and eof.
C1_Witness ==
  /\ IsOkFileResp(resp)
  /\ req.offset = 0
  /\ req.count = 3 * kMaxCopyBlockSize
  /\ 2 * Len(file) = 5 * kMaxCopyBlockSize
  /\ Len(resp.file_resp.data) = Len(file)
  /\ resp.file_resp.eof

\* C2 as stated: in every FileResp with code Ok the checksum is non-empty
\* exactly when eof is true, and then it is the MD5 of the whole file.
C2_ChecksumIffEof ==
  IsOkFileResp(resp) =>
    /\ (resp.file_resp.checksum # <<>>) <=> resp.file_resp.eof
    /\ resp.file_resp.eof => resp.file_resp.checksum = MD5OfFile(file)

\* C3: a replica that starts at offset 0 with a count > 0 needs at most
\* Len(file) \div count + 1 requests, and when it has stopped at eof it holds
\* exactly the bytes of the file and the MD5 of the whole file; without disk
\* errors it never fails.
C3_RoundTrip ==
  (replica.start = 0 /\ req.count > 0) =>
    /\ replica.nreq <= (Len(file) \div req.count) + 1
    /\ replica.nreq < MaxRequests
    /\ replica.state = "done" =>
         /\ replica.data = file
         /\ replica.checksum = MD5OfFile(file)
    /\ ~ioFault => replica.state # "failed"

\* The replica stopped on a file whose length is an exact multiple of count
\* and longer than one block.
C3_Witness ==
  /\ replica.start = 0
  /\ req.count > 0
  /\ Len(file) = 2 * req.count
  /\ Len(file) > kMaxCopyBlockSize
  /\ replica.state = "done"
  /\ replica.nreq = 3
  /\ replica.data = file

\* ReadDumpFile has been called for the current request and rd holds its
\* locals.
InReadDumpFile == pc \in {"open", "pread", "md5", "respond", "written"}

\* The bookkeeping of the read loop between two iterations.
ReadLoopInvariant ==
  InReadDumpFile =>
    /\ rd.left_read_count \in 0..req.count
    /\ rd.bytes_read + rd.left_read_count = req.count
    /\ rd.read_count <= rd.left_read_count
    /\ Len(rd.data) = rd.bytes_read
    /\ Len(rd.data) <= req.count

\* One iteration of the read loop: pread returned bytes and the body ran.
ReadLoopIteration == pc = "pread" /\ pc' = "pread" /\ rd' # rd

\* C21: in the read loop of ReadDumpFile, after each iteration
\* bytes_read + left_read_count = count and read_count <= left_read_count;
\* the bytes a pread returns never exceed left_read_count, so the unsigned
\* subtraction does not wrap and left_read_count strictly decreases; the
\* bytes copied into the buffer never exceed count; and the loop terminates.
C21_ReadLoopBookkeeping ==
  /\ []ReadLoopInvariant
  /\ [][ReadLoopIteration =>
          /\ rd'.bytesin > 0
          /\ rd'.bytesin <= rd.left_read_count
          /\ rd'.left_read_count = rd.left_read_count - rd'.bytesin
          /\ rd'.left_read_count < rd.left_read_count]_vars
  /\ ((pc = "pread") ~> (pc # "pread"))

\* The loop ran more than one block, used up count before the end of the
\* file and was left by a pread of zero bytes.
C21_Witness ==
  /\ pc = "md5"
  /\ rd.fpos = 0
  /\ req.count > kMaxCopyBlockSize
  /\ rd.left_read_count = 0
  /\ rd.read_count = 0
  /\ rd.bytes_read = req.count
  /\ Len(file) > req.offset + req.count


\* ------------------------------------------------------------------------
\* Claims about the list compaction filters (SpecFilter)
\* ------------------------------------------------------------------------
\* The decision C4 states for a data record of version v, given the meta
\* record m of its user key (or none) at time t.
C4_Rule(m, v, t) ==
  \/ ~m.exists
  \/ (m.ttl # 0 /\ m.ttl < t)
  \/ v < m.version

\* C4: a call of the data filter on a well-formed key that looked the meta
\* record up without error, or that reuses a meta record it looked up
\* without error and nobody wrote since, drops the record exactly when no
\* meta record exists, or it is expired, or the record's version is lower
\* than the meta record's; otherwise it keeps it.
C4_DataFilterRule ==
  (/\ last.filter = "data"
   /\ last.error = "none"
   /\ last.looked_up \/ (~job.meta_written /\ ~job.lookup_failed)) =>
    last.drop = C4_Rule(metaCF[last.key], last.version_d, now)

\* A record of the meta record's own version is kept under a ttl that has
\* not passed.
C4_Witness ==
  /\ last.filter = "data"
  /\ last.looked_up
  /\ metaCF[last.key].exists
  /\ metaCF[last.key].ttl # 0
  /\ metaCF[last.key].ttl >= now
  /\ last.version_d = metaCF[last.key].version
  /\ ~last.drop

\* No data record is older than the meta record of its user key.
NoStaleData ==
  \A r \in dataCF :
    (ParseOk(r) /\ metaCF[r.key].exists) => r.version >= metaCF[r.key].version

\* C5 as stated: when a full compaction has completed no data record of a
\* version lower than the meta record's remains, also when the meta record
\* was rewritten while the job ran.
C5_NoStaleAfterCompaction == job.state = "done" => NoStaleData

\* C5 as amended: when a full compaction has completed and the meta column
\* family was not written while the job ran, no data record of a version
\* lower than the meta record's remains.
C5_NoStaleAfterQuietCompaction ==
  (job.state = "done" /\ ~job.meta_written) => NoStaleData

\* A compaction without concurrent meta writes has removed a stale record
\* and kept a record of the current version.
C5_Witness ==
  /\ job.state = "done"
  /\ ~job.meta_written
  /\ job.dropped >= 1
  /\ \E r \in dataCF :
       ParseOk(r) /\ metaCF[r.key].exists /\ r.version = metaCF[r.key].version
  /\ \A k \in UserKeys : metaCF[k].exists /\ metaCF[k].version >= 2

\* C6: the meta filter drops a record exactly when its size is 0 or its ttl
\* is set and in the past; the version plays no part.
C6_MetaFilterRule ==
  last.filter = "meta" =>
    last.drop = (last.meta.size = 0 \/ (last.meta.ttl # 0 /\ last.meta.ttl < now))

\* An empty record without ttl is dropped although its version is not in
\* the past.
C6_Witness ==
  /\ last.filter = "meta"
  /\ last.meta.version >= now
  /\ last.meta.size = 0
  /\ last.meta.ttl = 0
  /\ last.drop

\* C11 as stated: every call of update_version leaves a version strictly
\* greater than the version before the call, whatever the old version and
\* the clock are.
C11_StrictlyGreater ==
  last.filter = "update_version" => last.meta.version > last.version_d

\* C11 as amended: a call of update_version on a record whose version is
\* below the largest signed 32-bit value sets the version to
\* max(old_version + 1, current_unix_seconds), which is strictly greater
\* than the old version, whatever the clock shows (the same second again, or
\* an earlier one).
C11_GreaterBelowInt32Max ==
  (last.filter = "update_version" /\ last.version_d < Int32Max) =>
    /\ last.meta.version =
         (IF last.version_d + 1 > now THEN last.version_d + 1 ELSE now)
    /\ last.meta.version > last.version_d
    /\ metaCF[last.key].version = last.meta.version

\* update_version was called after the clock moved backwards, behind the
\* version of an earlier call.
C11_Witness ==
  /\ last.filter = "update_version"
  /\ last.version_d >= 2
  /\ now < last.version_d
  /\ last.meta.version = last.version_d + 1

\* C12 as stated: a call of the data filter that meets an error (the key
\* does not parse, or the meta lookup returns an engine error) keeps the
\* record.
C12_ErrorKeeps ==
  (last.filter = "data" /\ last.error # "none") => ~last.drop

C19_KeptIsLive ==
  (last.filter = "data" /\ ~last.drop) =>
    /\ metaCF[last.key].exists
    /\ ~(metaCF[last.key].ttl # 0 /\ metaCF[last.key].ttl < now)
    /\ metaCF[last.key].version = last.version_d

\* C19 as amended: every data record the data filter keeps on a meta state
\* that is current (looked up by this call, or cached and not written since)
\* has a meta record that exists, is not expired, and whose version is not
\* greater than the data record's; a data record of a greater version than
\* the meta record's is kept.
C19_KeptNotOlderThanMeta ==
  /\ (/\ last.filter = "data"
      /\ ~last.drop
      /\ last.looked_up \/ ~job.meta_written) =>
       /\ metaCF[last.key].exists
       /\ ~(metaCF[last.key].ttl # 0 /\ metaCF[last.key].ttl < now)
       /\ metaCF[last.key].version <= last.version_d
  /\ (/\ last.filter = "data"
      /\ last.looked_up
      /\ last.error = "none"
      /\ metaCF[last.key].exists
      /\ ~(metaCF[last.key].ttl # 0 /\ metaCF[last.key].ttl < now)
      /\ last.version_d > metaCF[last.key].version) => ~last.drop

\* The filter looked the meta record up and kept a data record whose
\* version is greater than the meta record's.
C19_Witness ==
  /\ last.filter = "data"
  /\ last.looked_up
  /\ ~last.drop
  /\ metaCF[last.key].exists
  /\ last.version_d > metaCF[last.key].version

\* C20 as stated: a data record that the filter would drop (no meta record,
\* meta expired, or meta version above the record's) is still dropped after
\* any further step, as long as it is in the data column family.
C20_DeadStaysDead ==
  [][\A r \in dataCF \cap dataCF' :
       (ParseOk(r) /\ C4_Rule(metaCF[r.key], r.version, now)) =>
         C4_Rule(metaCF'[r.key], r.version, now')]_vars

\* ------------------------------------------------------------------------
\* Claims about the rsync server (Spec)
\* ------------------------------------------------------------------------
TaskIds == 1..Len(arrived)

InQueue(t) == \E i \in 1..Len(queue) : queue[i].id = t

InHandler(t) == \E w \in Workers : workers[w].pc # "idle" /\ workers[w].task = t

\* The handler of task t has run to its end.
TaskDone(t) ==
  /\ t \in TaskIds
  /\ arrived[t].type \in {"kRsyncMeta", "kRsyncFile"}
  /\ ~InQueue(t)
  /\ ~InHandler(t)

\* The calls of RsyncWriteResp made for task t.
WritesOf(t) == {i \in 1..Len(writes) : writes[i].task = t}

MetaTasks == {t \in TaskIds : arrived[t].type = "kRsyncMeta"}

FileTasks == {t \in TaskIds : arrived[t].type = "kRsyncFile"}

SlotMissing(t) == \E c \in checks : c.task = t /\ ~c.found

SawBgSaving(t) == \E c \in checks : c.task = t /\ c.found /\ c.is_bgsaving

SawIdleSlot(t) == \E c \in checks : c.task = t /\ c.found /\ ~c.is_bgsaving

\* The connection is marked for close only by a response that could not be
\* serialized or written.
CloseOnlyOnFailedWrite ==
  conn.close_notified => \E i \in 1..Len(writes) : ~writes[i].written

\* C7 as stated: a MetaReq whose partition the registry does not know is
\* answered with exactly one response, of code kErr.
C7_UnknownPartitionErr ==
  \A t \in MetaTasks :
    (SlotMissing(t) /\ TaskDone(t)) =>
      /\ Cardinality(WritesOf(t)) = 1
      /\ \A i \in WritesOf(t) : writes[i].resp.code = "kErr"

\* C7 as amended: a MetaReq whose partition the registry does not know is
\* dropped: the handler returns at once, no response is written for it, and
\* it does not mark the connection for close.
C7_UnknownPartitionDropped ==
  /\ \A t \in MetaTasks :
       SlotMissing(t) => (TaskDone(t) /\ WritesOf(t) = {})
  /\ CloseOnlyOnFailedWrite

\* A MetaReq for an unknown partition was handled and nothing was written.
C7_Witness ==
  \E t \in MetaTasks :
    /\ SlotMissing(t)
    /\ TaskDone(t)
    /\ WritesOf(t) = {}
    /\ writes = <<>>
    /\ conn.state = "open"

\* C8: a MetaReq handled while IsBgSaving is true gets no response and does
\* not mark the connection for close; a MetaReq handled on an existing
\* partition that is not saving gets exactly one response: code kOk, type
\* kRsyncMeta, the request's db_name and slot_id, and the file names (in
\* order) and UUID the coordinator advertises when the response is built.
C8_MetaReq ==
  /\ \A t \in MetaTasks :
       /\ SawBgSaving(t) => (TaskDone(t) /\ WritesOf(t) = {})
       /\ Cardinality(WritesOf(t)) <= 1
       /\ (SawIdleSlot(t) /\ TaskDone(t)) =>
            /\ Cardinality(WritesOf(t)) = 1
            /\ \A i \in WritesOf(t) :
                 LET r == writes[i].resp
                 IN /\ r.code = "kOk"
                    /\ r.type = "kRsyncMeta"
                    /\ r.db_name = arrived[t].db_name
                    /\ r.slot_id = arrived[t].slot_id
                    /\ r.has_meta_resp
                    /\ r.filenames = SnapshotFiles(writes[i].gen)
                    /\ r.snapshot_uuid = UUIDOf(writes[i].gen)
  /\ CloseOnlyOnFailedWrite

\* A MetaReq was dropped during a background save, the connection stayed
\* open, and a later MetaReq on the same partition was answered with the new
\* snapshot's files and UUID.
C8_Witness ==
  \E t1, t2 \in MetaTasks :
    /\ t1 < t2
    /\ PartOf(arrived[t1]) = PartOf(arrived[t2])
    /\ SawBgSaving(t1)
    /\ WritesOf(t1) = {}
    /\ SawIdleSlot(t2)
    /\ TaskDone(t2)
    /\ conn.state = "open"
    /\ ~conn.close_notified
    /\ \E i \in WritesOf(t2) :
         /\ writes[i].written
         /\ writes[i].resp.filenames = <<"a.sst", "b.sst">>
         /\ writes[i].resp.snapshot_uuid # <<>>

\* C9 as stated: every FileReq task writes exactly one response, never a
\* second one, and when the slot lookup found no partition that response has
\* code kErr and the handler stops there (the process goes on running).
C9_OneResponsePerFileReq ==
  /\ \A t \in FileTasks :
       /\ Cardinality(WritesOf(t)) <= 1
       /\ TaskDone(t) => Cardinality(WritesOf(t)) = 1
       /\ SlotMissing(t) => \A i \in WritesOf(t) : writes[i].resp.code = "kErr"
  /\ ~crashed

\* C10 as stated: the data of every FileResp with code kOk was read from the
\* snapshot whose UUID the response carries, and that UUID is not empty.
C10_DataOfAdvertisedSnapshot ==
  \A i \in 1..Len(writes) :
    IsOkFileResp(writes[i].resp) =>
      /\ writes[i].resp.snapshot_uuid # <<>>
      /\ writes[i].resp.snapshot_uuid = UUIDOf(writes[i].read_gen)

\* A step of the reader thread that parsed a frame.
FrameParsed == Len(arrived') = Len(arrived) + 1

\* The tasks in the queue are in the order their frames arrived.
QueueInArrivalOrder ==
  \A i, j \in 1..Len(queue) : i < j => queue[i].id < queue[j].id

\* A step that looks a partition up or writes a response is a step of a
\* worker that is inside a handler.
OnlyWorkersLookUp ==
  (checks' # checks \/ writes' # writes) =>
    \E w \in Workers : workers[w].pc # "idle" /\ workers'[w] # workers[w]

\* C14 as stated: every frame that parses puts exactly one task in the
\* worker pool's queue, whatever its type.
C14_TaskPerFrame ==
  [][FrameParsed => Len(queue') = Len(queue) + 1]_vars

\* C14 as amended: a parsed frame of type kRsyncMeta or kRsyncFile puts
\* exactly one task (the request, with the connection) at the end of the
\* pool's queue, a parsed frame of any other type puts none and leaves the
\* connection open; the queue keeps the tasks in arrival order; the reader
\* thread does no lookup and writes no response, only workers do.
C14_TaskPerRequest ==
  /\ []QueueInArrivalOrder
  /\ [][/\ FrameParsed =>
             LET r == arrived'[Len(arrived')]
             IN /\ r.type \in {"kRsyncMeta", "kRsyncFile"} =>
                     /\ Len(queue') = Len(queue) + 1
                     /\ SubSeq(queue', 1, Len(queue)) = queue
                     /\ queue'[Len(queue')].id = Len(arrived')
                     /\ queue'[Len(queue')].req = r
                /\ r.type \notin {"kRsyncMeta", "kRsyncFile"} => queue' = queue
                /\ conn' = conn
                /\ workers' = workers
          /\ OnlyWorkersLookUp]_vars

\* A frame of an unknown type was parsed and dropped, and the FileReq that
\* came after it on the open connection is in the queue.
C14_Witness ==
  /\ Len(arrived) = 2
  /\ arrived[1].type = "kUnknownType"
  /\ arrived[2].type = "kRsyncFile"
  /\ Len(queue) = 1
  /\ queue[1].id = 2
  /\ queue[1].req = arrived[2]
  /\ conn.state = "open"

\* C15: every response that carries a FileResp carries the type, partition,
\* filename and offset of the request of the task that wrote it, in whatever
\* order the handlers complete.
C15_ResponsesCorrelate ==
  \A i \in 1..Len(writes) :
    LET r == writes[i].resp
        q == arrived[writes[i].task]
    IN /\ r.type = q.type
       /\ r.db_name = q.db_name
       /\ r.slot_id = q.slot_id
       /\ r.has_file_resp =>
            /\ r.file_resp.filename = q.filename
            /\ r.file_resp.offset = q.offset

\* Two FileReqs R1, R2 arrived in this order on the connection and the
\* response to R2 was written before the response to R1; both carry data
\* and differ in their (filename, offset).
C15_Witness ==
  \E i, j \in 1..Len(writes) :
    /\ i < j
    /\ writes[i].task > writes[j].task
    /\ IsOkFileResp(writes[i].resp)
    /\ IsOkFileResp(writes[j].resp)
    /\ writes[i].written
    /\ writes[j].written
    /\ writes[i].resp.file_resp.offset # writes[j].resp.file_resp.offset

\* C16 as stated: Stop stops the reader thread before it stops the pool, no
\* task is enqueued once the pool has been stopped, and when Stop is over
\* no task is left in the queue.
C16_StopDrainsQueue ==
  /\ server \in {"pool_stopping", "pool_stopped"} => ~ThreadRunning
  /\ \A i \in 1..Len(queue) : ~queue[i].after_stop
  /\ server = "stopped" => queue = <<>>

\* C17: a response written after ReadDumpFile returned IOError has code
\* kErr and no FileResp, whatever had been read before the error; and the
\* connection is marked for close only by a response that could not be
\* written.
C17_ReaderFailureErr ==
  /\ \A i \in 1..Len(writes) :
       writes[i].read.status = "IOError" =>
         /\ writes[i].resp.code = "kErr"
         /\ ~writes[i].resp.has_file_resp
         /\ writes[i].resp.file_resp = DefaultFileResp
  /\ conn.close_notified => \E i \in 1..Len(writes) : ~writes[i].written

\* A read failed after it had read bytes, the kErr response was written and
\* the connection is open and not marked for close.
C17_Witness ==
  /\ \E i \in 1..Len(writes) :
       /\ writes[i].read.status = "IOError"
       /\ writes[i].read.bytes_read > 0
       /\ writes[i].written
  /\ ~conn.close_notified
  /\ conn.state = "open"

\* C18: each call of RsyncWriteResp issues exactly one notification:
\* NotifyWrite when the response was serialized and written, NotifyClose
\* when it was not; the connection is marked for close exactly when some
\* response could not be written.
C18_OneNotification ==
  /\ \A i \in 1..Len(writes) :
       /\ writes[i].notify \in {"NotifyWrite", "NotifyClose"}
       /\ writes[i].written <=> writes[i].notify = "NotifyWrite"
       /\ ~writes[i].written <=> writes[i].notify = "NotifyClose"
  /\ conn.close_notified <=> \E i \in 1..Len(writes) : ~writes[i].written

\* A response was written and the I/O thread woken for it, then a second
\* one failed and marked the connection for close.
C18_Witness ==
  /\ Len(writes) = 2
  /\ writes[1].written
  /\ writes[1].notify = "NotifyWrite"
  /\ ~writes[2].written
  /\ writes[2].notify = "NotifyClose"
  /\ conn.close_notified

====
